---- MODULE Spec2Model ----
(***************************************************************************)
(* Model of the casefold HTTP middleware (package casefold, handler.go).   *)
(*                                                                         *)
(* Strings are sequences of runes.  A rune is a one-character TLA+ string, *)
(* except the multi-byte runes, which are named by their code point:       *)
(*   "U+00DF"  LATIN SMALL LETTER SHARP S                                  *)
(* A request, a configuration and a directory tree are drawn from bounded  *)
(* sets; Provision and ServeHTTP are translated from handler.go.           *)
(***************************************************************************)
EXTENDS Integers, Sequences, FiniteSets, TLC

\* ------------------------------------------------------------------ bounds
\* Largest number of "/"-separated segments of a generated request path.
MaxSegs == 2

\* ------------------------------------------------------------ rune strings
SharpS == "U+00DF"

\* Code point of each rune the model uses (byte order of the UTF-8 strings).
Code(c) ==
  CASE c = " " -> 32
    [] c = "*" -> 42
    [] c = "-" -> 45
    [] c = "." -> 46
    [] c = "/" -> 47
    [] c = "?" -> 63
    [] c = "A" -> 65
    [] c = "B" -> 66
    [] c = "F" -> 70
    [] c = "S" -> 83
    [] c = "X" -> 88
    [] c = "[" -> 91
    [] c = "\\" -> 92
    [] c = "]" -> 93
    [] c = "^" -> 94
    [] c = "a" -> 97
    [] c = "b" -> 98
    [] c = "d" -> 100
    [] c = "e" -> 101
    [] c = "f" -> 102
    [] c = "g" -> 103
    [] c = "l" -> 108
    [] c = "o" -> 111
    [] c = "p" -> 112
    [] c = "r" -> 114
    [] c = "s" -> 115
    [] c = "u" -> 117
    [] c = "w" -> 119
    [] c = "x" -> 120
    [] c = SharpS -> 223
    [] OTHER -> 0

\* s < t in Go's string order (lexicographic by byte).
RECURSIVE StrLess(_, _)
StrLess(s, t) ==
  IF t = <<>> THEN FALSE
  ELSE IF s = <<>> THEN TRUE
  ELSE IF Code(Head(s)) # Code(Head(t)) THEN Code(Head(s)) < Code(Head(t))
  ELSE StrLess(Tail(s), Tail(t))

\* strings.HasPrefix
HasPrefix(s, prefix) ==
  /\ Len(s) >= Len(prefix)
  /\ SubSeq(s, 1, Len(prefix)) = prefix

\* strings.TrimPrefix
TrimPrefix(s, prefix) ==
  IF HasPrefix(s, prefix) THEN SubSeq(s, Len(prefix) + 1, Len(s)) ELSE s

\* strings.Split(s, sep) for a one-rune separator: always at least one piece.
RECURSIVE SplitFrom(_, _, _)
SplitFrom(s, sep, cur) ==
  IF s = <<>> THEN <<cur>>
  ELSE IF Head(s) = sep THEN <<cur>> \o SplitFrom(Tail(s), sep, <<>>)
  ELSE SplitFrom(Tail(s), sep, Append(cur, Head(s)))

Split(s, sep) == SplitFrom(s, sep, <<>>)

\* strings.Join(elems, sep)
RECURSIVE Join(_, _)
Join(elems, sep) ==
  IF elems = <<>> THEN <<>>
  ELSE IF Len(elems) = 1 THEN elems[1]
  ELSE elems[1] \o sep \o Join(Tail(elems), sep)

\* strings.TrimSpace
IsSpace(c) == c = " "

RECURSIVE TrimLeft(_)
TrimLeft(s) ==
  IF s # <<>> /\ IsSpace(Head(s)) THEN TrimLeft(Tail(s)) ELSE s

RECURSIVE TrimRight(_)
TrimRight(s) ==
  IF s # <<>> /\ IsSpace(s[Len(s)]) THEN TrimRight(SubSeq(s, 1, Len(s) - 1)) ELSE s

TrimSpace(s) == TrimRight(TrimLeft(s))

\* unicode.ToLower on one rune: the simple lower-case mapping.  The sharp s
\* is already lower case and maps to itself.
ToLowerRune(c) ==
  CASE c = "A" -> "a"
    [] c = "B" -> "b"
    [] c = "F" -> "f"
    [] c = "S" -> "s"
    [] c = "X" -> "x"
    [] OTHER -> c

\* strings.ToLower: rune by rune.
RECURSIVE ToLower(_)
ToLower(s) ==
  IF s = <<>> THEN <<>> ELSE <<ToLowerRune(Head(s))>> \o ToLower(Tail(s))

\* Mutant of FoldRune: the sharp s expands as in upper-casing, to "SS".
FoldRuneUpperExpansion(c) ==
  IF c = SharpS THEN <<"S", "S">> ELSE <<ToLowerRune(c)>>

\* cases.Fold(): full Unicode case folding of one rune; the sharp s expands
\* to two runes.
FoldRune(c) ==
  IF c = SharpS THEN <<"s", "s">> ELSE <<ToLowerRune(c)>>

RECURSIVE FoldString(_)
FoldString(s) ==
  IF s = <<>> THEN <<>> ELSE FoldRune(Head(s)) \o FoldString(Tail(s))

\* ------------------------------------------------------------- package path
\* path.Clean, element by element: empty and "." elements are dropped, ".."
\* removes the element before it; at the root it is dropped, and in a
\* relative path with nothing left to remove it is kept.
RECURSIVE CleanElems(_, _, _)
CleanElems(elems, rooted, acc) ==
  IF elems = <<>> THEN acc
  ELSE LET e == Head(elems)
           rest == Tail(elems)
       IN IF e = <<>> \/ e = <<".">> THEN CleanElems(rest, rooted, acc)
          ELSE IF e = <<".", ".">>
            THEN IF acc # <<>> /\ acc[Len(acc)] # <<".", ".">>
                   THEN CleanElems(rest, rooted, SubSeq(acc, 1, Len(acc) - 1))
                 ELSE IF ~rooted THEN CleanElems(rest, rooted, Append(acc, e))
                 ELSE CleanElems(rest, rooted, acc)
          ELSE CleanElems(rest, rooted, Append(acc, e))

Clean(p) ==
  IF p = <<>> THEN <<".">>
  ELSE LET rooted == Head(p) = "/"
           acc == CleanElems(Split(p, "/"), rooted, <<>>)
       IN IF rooted THEN <<"/">> \o Join(acc, <<"/">>)
          ELSE IF acc = <<>> THEN <<".">>
          ELSE Join(acc, <<"/">>)

\* One range of a character class, lo or lo-hi (path.getEsc): ok is FALSE
\* where getEsc returns ErrBadPattern.
GetEsc(chunk) ==
  IF chunk = <<>> \/ Head(chunk) = "-" \/ Head(chunk) = "]"
    THEN [ok |-> FALSE, r |-> "", rest |-> <<>>]
  ELSE LET c == IF Head(chunk) = "\\" THEN Tail(chunk) ELSE chunk
       IN IF c = <<>> \/ Tail(c) = <<>>
            THEN [ok |-> FALSE, r |-> "", rest |-> <<>>]
          ELSE [ok |-> TRUE, r |-> Head(c), rest |-> Tail(c)]

\* The ranges of a class, read after "[" and an optional "^", up to the
\* closing "]" (the class loop of path.matchChunk).
RECURSIVE ClassRanges(_, _)
ClassRanges(chunk, ranges) ==
  IF chunk # <<>> /\ Head(chunk) = "]" /\ ranges # {}
    THEN [ok |-> TRUE, ranges |-> ranges, rest |-> Tail(chunk)]
  ELSE LET lo == GetEsc(chunk)
       IN IF ~lo.ok THEN [ok |-> FALSE, ranges |-> {}, rest |-> <<>>]
          ELSE IF Head(lo.rest) = "-"
            THEN LET hi == GetEsc(Tail(lo.rest))
                 IN IF ~hi.ok THEN [ok |-> FALSE, ranges |-> {}, rest |-> <<>>]
                    ELSE ClassRanges(hi.rest, ranges \cup {<<lo.r, hi.r>>})
          ELSE ClassRanges(lo.rest, ranges \cup {<<lo.r, lo.r>>})

Class(pattern) ==
  LET negated == Len(pattern) > 1 /\ pattern[2] = "^"
      body == IF negated THEN Tail(Tail(pattern)) ELSE Tail(pattern)
      cr == ClassRanges(body, {})
  IN [ok |-> cr.ok, negated |-> negated, ranges |-> cr.ranges, rest |-> cr.rest]

InClass(cl, r) ==
  LET match == \E rg \in cl.ranges : Code(rg[1]) <= Code(r) /\ Code(r) <= Code(rg[2])
  IN match # cl.negated

\* The pattern is syntactically valid: path.Match reports ErrBadPattern, with
\* no match, for every other pattern.
RECURSIVE WellFormed(_)
WellFormed(pattern) ==
  IF pattern = <<>> THEN TRUE
  ELSE IF Head(pattern) = "[" THEN Class(pattern).ok /\ WellFormed(Class(pattern).rest)
  ELSE IF Head(pattern) = "\\" THEN Len(pattern) >= 2 /\ WellFormed(Tail(Tail(pattern)))
  ELSE WellFormed(Tail(pattern))

\* The glob relation of a valid pattern: "*" is any run of non-"/" runes,
\* "?" one non-"/" rune, a class one rune, "\\c" and c the rune c.
RECURSIVE Glob(_, _)
Glob(pattern, name) ==
  IF pattern = <<>> THEN name = <<>>
  ELSE LET c == Head(pattern)
       IN IF c = "*"
            THEN \E k \in 0..Len(name) :
                   /\ \A i \in 1..k : name[i] # "/"
                   /\ Glob(Tail(pattern), SubSeq(name, k + 1, Len(name)))
          ELSE IF name = <<>> THEN FALSE
          ELSE IF c = "?" THEN Head(name) # "/" /\ Glob(Tail(pattern), Tail(name))
          ELSE IF c = "[" THEN /\ InClass(Class(pattern), Head(name))
                               /\ Glob(Class(pattern).rest, Tail(name))
          ELSE IF c = "\\" THEN /\ pattern[2] = Head(name)
                                /\ Glob(Tail(Tail(pattern)), Tail(name))
          ELSE c = Head(name) /\ Glob(Tail(pattern), Tail(name))

\* path.Match(pattern, name): the matched result and whether err is nil.
Match(pattern, name) ==
  IF WellFormed(pattern) THEN [ok |-> Glob(pattern, name), err |-> FALSE]
  ELSE [ok |-> FALSE, err |-> TRUE]

\* --------------------------------------------------------- the directory tree
\* The files below "/" as the operating system holds them while a request is
\* served: each node is the sequence of names leading to it.
\*   /s            directory
\*   /s/A          directory       /s/A/b  file     /s/A/A  directory
\*   /s/a          file
\*   /s/B          directory that cannot be listed  /s/B/a  file
\* /g does not exist.
Nodes ==
  { [at |-> << <<"s">> >>, isDir |-> TRUE, readable |-> TRUE],
    [at |-> << <<"s">>, <<"A">> >>, isDir |-> TRUE, readable |-> TRUE],
    [at |-> << <<"s">>, <<"A">>, <<"b">> >>, isDir |-> FALSE, readable |-> TRUE],
    [at |-> << <<"s">>, <<"A">>, <<"A">> >>, isDir |-> TRUE, readable |-> TRUE],
    [at |-> << <<"s">>, <<"a">> >>, isDir |-> FALSE, readable |-> TRUE],
    [at |-> << <<"s">>, <<"B">> >>, isDir |-> TRUE, readable |-> FALSE],
    [at |-> << <<"s">>, <<"B">>, <<"a">> >>, isDir |-> FALSE, readable |-> TRUE] }

\* The working directory of the server process.
Cwd == <<"/">>

\* The names leading to the file a path string denotes ("/" is <<>>).
Locate(name) ==
  LET abs == IF HasPrefix(name, <<"/">>) THEN name ELSE Cwd \o <<"/">> \o name
      clean == Clean(abs)
  IN IF clean = <<"/">> THEN <<>> ELSE Split(TrimPrefix(clean, <<"/">>), "/")

NodeAt(at) ==
  IF at = <<>> THEN {[at |-> <<>>, isDir |-> TRUE, readable |-> TRUE]}
  ELSE {n \in Nodes : n.at = at}

Children(at) ==
  {n \in Nodes : Len(n.at) = Len(at) + 1 /\ SubSeq(n.at, 1, Len(at)) = at}

RECURSIVE SortNames(_)
SortNames(names) ==
  IF names = {} THEN <<>>
  ELSE LET least == CHOOSE x \in names : \A y \in names \ {x} : StrLess(x, y)
       IN <<least>> \o SortNames(names \ {least})

\* os.ReadDir(name): the entry names sorted by filename, or an error when
\* name is missing, is not a directory or cannot be listed.
ReadDir(name) ==
  LET at == Locate(name)
      here == NodeAt(at)
  IN IF here = {} \/ \E n \in here : ~n.isDir \/ ~n.readable
       THEN [err |-> TRUE, entries |-> <<>>]
     ELSE [err |-> FALSE,
           entries |-> SortNames({n.at[Len(n.at)] : n \in Children(at)})]

\* os.Stat(name): fi.IsDir(), or an error when name is missing.
Stat(name) ==
  LET here == NodeAt(Locate(name))
  IN IF here = {} THEN [err |-> TRUE, isDir |-> FALSE]
     ELSE [err |-> FALSE, isDir |-> \E n \in here : n.isDir]

\* filepath.Join(dir, name)
FilepathJoin(dir, name) == Clean(dir \o <<"/">> \o name)

\* filepath.IsAbs
IsAbs(name) == HasPrefix(name, <<"/">>)

\* filepath.Abs(name) when os.Getwd succeeds.
Abs(name) == IF IsAbs(name) THEN Clean(name) ELSE FilepathJoin(Cwd, name)

\* --------------------------------------------------------------- canonicalFS
\* The first entry name satisfying the test, "" when none does: both search
\* loops of canonicalFS stop at the first hit.
RECURSIVE FirstExact(_, _)
FirstExact(entries, seg) ==
  IF entries = <<>> THEN <<>>
  ELSE IF Head(entries) = seg THEN Head(entries)
  ELSE FirstExact(Tail(entries), seg)

RECURSIVE FirstLowered(_, _)
FirstLowered(entries, lowered) ==
  IF entries = <<>> THEN <<>>
  ELSE IF ToLower(Head(entries)) = lowered THEN Head(entries)
  ELSE FirstLowered(Tail(entries), lowered)

\* Mutant of MatchName: the case-insensitive search runs without the exact
\* search before it.
MatchNameLoweredOnly(entries, seg) == FirstLowered(entries, ToLower(seg))

MatchName(entries, seg) ==
  LET exact == FirstExact(entries, seg)
  IN IF exact # <<>> THEN exact ELSE FirstLowered(entries, ToLower(seg))

\* Mutant of Fail: the segments built so far are returned as a success.
FailPartial(p, why, built, reads) ==
  [path |-> <<"/">> \o Join(built, <<"/">>), ok |-> TRUE, why |-> why,
   built |-> built, reads |-> reads]

\* "return p, false": the original path, whatever was built so far.
Fail(p, why, built, reads) ==
  [path |-> p, ok |-> FALSE, why |-> why, built |-> built, reads |-> reads]

\* The segment loop of canonicalFS from segment i on; reads is the list of
\* directories handed to os.ReadDir so far, why names the return taken.
RECURSIVE WalkSegs(_, _, _, _, _, _)
WalkSegs(p, segs, i, curDir, built, reads) ==
  IF i > Len(segs)
    THEN [path |-> <<"/">> \o Join(built, <<"/">>), ok |-> TRUE, why |-> "ok",
          built |-> built, reads |-> reads]
  ELSE LET listing == ReadDir(curDir)
           reads1 == Append(reads, curDir)
           matchName == MatchName(listing.entries, segs[i])
           built1 == Append(built, matchName)
           nextDir == FilepathJoin(curDir, matchName)
           fi == Stat(nextDir)
       IN IF listing.err THEN Fail(p, "readdir", built, reads1)
          ELSE IF matchName = <<>> THEN Fail(p, "nomatch", built, reads1)
          ELSE IF i < Len(segs)
            THEN IF fi.err \/ ~fi.isDir THEN Fail(p, "notdir", built1, reads1)
                 ELSE WalkSegs(p, segs, i + 1, nextDir, built1, reads1)
          ELSE WalkSegs(p, segs, i + 1, curDir, built1, reads1)

\* The ".." guard of canonicalFS over the segments of the cleaned path.
HasDotDot(segs) == \E i \in 1..Len(segs) : segs[i] = <<".", ".">>

canonicalFS(root, p) ==
  LET clean == Clean(p)
      segs == Split(TrimPrefix(clean, <<"/">>), "/")
  IN IF root = <<>> THEN Fail(p, "noroot", <<>>, <<>>)
     ELSE IF ~HasPrefix(clean, <<"/">>) THEN Fail(p, "relative", <<>>, <<>>)
     ELSE IF clean = <<"/">> THEN Fail(p, "slash", <<>>, <<>>)
     ELSE IF HasDotDot(segs) THEN Fail(p, "dotdot", <<>>, <<>>)
     ELSE WalkSegs(p, segs, 1, root, <<>>, <<>>)

\* ------------------------------------------------------------------ Casefold
VARIABLES
  c,      \* the Casefold module: Mode, Root, Exclude and the caser fold
  log,    \* warnings Provision wrote to ctx.Logger()
  phase,  \* "config", "idle", "request" (r is in flight) or "served"
  r,      \* the *http.Request: URL.Path, URL.RawQuery, RequestURI, X-Original-URI
  w,      \* the X-Original-URI values of the response header
  orig,   \* the request as it arrived, and whether it repeats a rewritten path
  next,   \* how often the next handler ran and the request it was handed
  ret,    \* what ServeHTTP returned: "nil", "err", "panic"; "none" before it ran
  trace   \* the calls ServeHTTP made: skip, the caser, canonicalFS, os.ReadDir

vars == <<c, log, phase, r, w, orig, next, ret, trace>>

Str(mode) ==
  CASE mode = "lower" -> <<"l", "o", "w", "e", "r">>
    [] mode = "fold" -> <<"f", "o", "l", "d">>
    [] mode = "fs" -> <<"f", "s">>
    [] mode = " FS " -> <<" ", "F", "S", " ">>
    [] mode = "up" -> <<"u", "p">>
    [] OTHER -> <<>>

\* The configurations: mode strings as written in a Caddyfile or JSON config,
\* roots (empty, absolute, relative to the working directory, missing) and
\* exclusion lists (an empty pattern, a malformed one, classes, escapes).
Modes == {Str(""), Str("lower"), Str("fold"), Str("fs"), Str(" FS "), Str("up")}

Roots == {<<>>, <<"/", "s">>, <<"s">>, <<"/", "g">>}

ExcludeLists ==
  { <<>>,
    << <<>>, <<"/", "A", "/", "*">> >>,
    << <<"/", "[", "A", "-", "B">>, <<"/", "[", "^", "a", "-", "b", "]">> >>,
    << <<"/", "?", "/", "\\", "a">> >> }

\* The request paths: the empty path and the rooted paths of up to MaxSegs
\* segments, among them empty, "." and ".." segments.
Segments == {<<>>, <<".">>, <<".", ".">>, <<"a">>, <<"A">>, <<"b">>, <<SharpS>>}

SegLists == UNION {[1..n -> Segments] : n \in 1..MaxSegs}

RequestPaths ==
  {<<>>} \cup {<<"/">> \o Join(segs, <<"/">>) : segs \in SegLists}

Queries == {<<>>, <<"X">>}

\* The results of the next handler in the chain.
NextResults == {"nil", "err"}

\* The escaped form of a path in the request line.
RECURSIVE EscapedPath(_)
EscapedPath(p) ==
  IF p = <<>> THEN <<>>
  ELSE <<IF Head(p) = SharpS THEN "%C3%9F" ELSE Head(p)>> \o EscapedPath(Tail(p))

\* The request an HTTP server builds for the target path?query.
Request(p, q) ==
  [Path |-> p, RawQuery |-> q,
   RequestURI |-> EscapedPath(p) \o (IF q = <<>> THEN <<>> ELSE <<"?">> \o q),
   Header |-> <<>>]

NoRequest == Request(<<>>, <<>>)

NoNext == [calls |-> 0, r |-> NoRequest, res |-> "none"]

NoTrace == [skip |-> 0, caser |-> <<>>, fs |-> <<>>]

\* Provision: the caser chosen for the mode string.
ProvisionFold(mode) ==
  LET m == ToLower(TrimSpace(mode))
  IN IF m = <<>> \/ m = Str("lower") THEN "lowerCaser"
     ELSE IF m = Str("fold") THEN "cases.Fold"
     ELSE IF m = Str("fs") THEN "nil"
     ELSE "lowerCaser"

\* Provision: the root, made absolute in fs mode unless filepath.Abs fails.
ProvisionRoot(mode, root, absErr) ==
  IF ToLower(TrimSpace(mode)) = Str("fs") /\ root # <<>> /\ ~IsAbs(root) /\ ~absErr
    THEN Abs(root)
  ELSE root

\* Provision: the warnings logged.
ProvisionWarn(mode, root) ==
  LET m == ToLower(TrimSpace(mode))
  IN IF m = Str("fs") THEN (IF root = <<>> THEN <<"fs mode enabled but root not set">> ELSE <<>>)
     ELSE IF m \in {<<>>, Str("lower"), Str("fold")} THEN <<>>
     ELSE <<"unknown casefold mode">>

\* Mutant of ShortCircuit: only the empty path returns early.
ShortCircuitEmptyOnly(p) == p = <<>>

\* The first test of ServeHTTP: nothing to do for "" and "/".
ShortCircuit(p) == p = <<>> \/ p = <<"/">>

\* Mutant of skip: an empty pattern ends the loop instead of being passed over.
skipUntilEmpty(exclude, p) ==
  \E i \in 1..Len(exclude) :
    /\ \A j \in 1..i : exclude[j] # <<>>
    /\ Match(exclude[i], p).ok

\* skip: some non-empty pattern of Exclude matches p.
skip(exclude, p) ==
  \E i \in 1..Len(exclude) : exclude[i] # <<>> /\ Match(exclude[i], p).ok

\* c.fold.String(s) for a non-nil caser.
CaserString(fold, s) ==
  IF fold = "cases.Fold" THEN FoldString(s) ELSE ToLower(s)

\* Mutant of Transform: the caser is called in every mode, as before fs mode
\* was added.
TransformAlwaysCaser(cf, p) ==
  IF cf.fold = "nil"
    THEN [path |-> p, panic |-> TRUE, caser |-> <<>>, fs |-> <<>>]
  ELSE [path |-> CaserString(cf.fold, p), panic |-> FALSE,
        caser |-> <<p>>, fs |-> <<>>]

\* The mode switch of ServeHTTP: the transformed path, the calls made and
\* whether the switch dereferenced a nil caser.
Transform(cf, p) ==
  LET mode == ToLower(TrimSpace(cf.Mode))
      canon == canonicalFS(cf.Root, p)
  IN IF mode \in {<<>>, Str("lower"), Str("fold")}
       THEN IF cf.fold = "nil"
              THEN [path |-> p, panic |-> TRUE, caser |-> <<>>, fs |-> <<>>]
            ELSE [path |-> CaserString(cf.fold, p), panic |-> FALSE,
                  caser |-> <<p>>, fs |-> <<>>]
     ELSE IF mode = Str("fs")
       THEN [path |-> IF canon.ok THEN canon.path ELSE p, panic |-> FALSE,
             caser |-> <<>>, fs |-> <<canon>>]
     ELSE [path |-> p, panic |-> FALSE, caser |-> <<>>, fs |-> <<>>]

\* Mutant of Rewrite: X-Original-URI is set after the path was replaced.
RewriteThenHeader(req, transformed) ==
  IF transformed # req.Path
    THEN [req EXCEPT !.Header = <<transformed>>, !.Path = transformed,
                     !.RequestURI = transformed]
  ELSE req

\* The rewrite of ServeHTTP once transformed is known.
Rewrite(req, transformed) ==
  IF transformed # req.Path
    THEN [req EXCEPT !.Header = <<req.Path>>, !.Path = transformed,
                     !.RequestURI = transformed]
  ELSE req

RewriteResponse(hdr, req, transformed) ==
  IF transformed # req.Path THEN <<req.Path>> ELSE hdr

Init ==
  /\ c \in [Mode : Modes, Root : Roots, Exclude : ExcludeLists, fold : {"nil"}]
  /\ log = <<>>
  /\ phase = "config"
  /\ r = NoRequest
  /\ w = <<>>
  /\ orig = [r |-> NoRequest, resent |-> FALSE]
  /\ next = NoNext
  /\ ret = "none"
  /\ trace = NoTrace

Provision ==
  /\ phase = "config"
  /\ \E absErr \in BOOLEAN :
       c' = [c EXCEPT !.fold = ProvisionFold(c.Mode),
                      !.Root = ProvisionRoot(c.Mode, c.Root, absErr)]
  /\ log' = ProvisionWarn(c.Mode, c.Root)
  /\ phase' = "idle"
  /\ UNCHANGED <<r, w, orig, next, ret, trace>>

\* A request for p?q reaches the handler with a fresh response writer.
Arrive(p, q, resent) ==
  /\ r' = Request(p, q)
  /\ w' = <<>>
  /\ orig' = [r |-> Request(p, q), resent |-> resent]
  /\ next' = NoNext
  /\ ret' = "none"
  /\ trace' = NoTrace
  /\ phase' = "request"
  /\ UNCHANGED <<c, log>>

NewRequest ==
  /\ phase = "idle"
  /\ \E p \in RequestPaths, q \in Queries : Arrive(p, q, FALSE)

\* The client, or a later hop, asks again for the path a rewrite produced.
Resend ==
  /\ phase = "served"
  /\ ret # "panic"
  /\ r.Path # orig.r.Path
  /\ Arrive(r.Path, r.RawQuery, TRUE)

ServeHTTP ==
  /\ phase = "request"
  /\ LET p == r.Path
         t == Transform(c, p)
     IN IF ShortCircuit(p)
          THEN /\ UNCHANGED <<r, w, trace>>
               /\ \E res \in NextResults :
                    /\ next' = [calls |-> next.calls + 1, r |-> r, res |-> res]
                    /\ ret' = res
        ELSE IF skip(c.Exclude, p)
          THEN /\ UNCHANGED <<r, w>>
               /\ trace' = [trace EXCEPT !.skip = 1]
               /\ \E res \in NextResults :
                    /\ next' = [calls |-> next.calls + 1, r |-> r, res |-> res]
                    /\ ret' = res
        ELSE IF t.panic
          THEN /\ UNCHANGED <<r, w, next>>
               /\ trace' = [trace EXCEPT !.skip = 1]
               /\ ret' = "panic"
        ELSE /\ r' = Rewrite(r, t.path)
             /\ w' = RewriteResponse(w, r, t.path)
             /\ trace' = [skip |-> 1, caser |-> t.caser, fs |-> t.fs]
             /\ \E res \in NextResults :
                  /\ next' = [calls |-> next.calls + 1, r |-> r', res |-> res]
                  /\ ret' = res
  /\ phase' = "served"
  /\ UNCHANGED <<c, log, orig>>

\* The response is written and the request is over.
Finish ==
  /\ phase = "served"
  /\ phase' = "idle"
  /\ r' = NoRequest
  /\ w' = <<>>
  /\ orig' = [r |-> NoRequest, resent |-> FALSE]
  /\ next' = NoNext
  /\ ret' = "none"
  /\ trace' = NoTrace
  /\ UNCHANGED <<c, log>>

Next == Provision \/ NewRequest \/ Resend \/ ServeHTTP \/ Finish

Spec == Init /\ [][Next]_vars

\* ==================================================================== claims
Served == phase = "served"

NormMode == ToLower(TrimSpace(c.Mode))

CaserModes == {<<>>, Str("lower"), Str("fold")}

\* The path of the request as it arrived.
OrigPath == orig.r.Path

\* Some non-empty pattern of the exclusion list glob-matches p.
Excluded(p) ==
  \E i \in 1..Len(c.Exclude) :
    c.Exclude[i] # <<>> /\ WellFormed(c.Exclude[i]) /\ Glob(c.Exclude[i], p)

\* The request went to the next handler once, exactly as it arrived, and no
\* header was set.
PassedUnchanged ==
  /\ next.calls = 1
  /\ next.r = orig.r
  /\ r = orig.r
  /\ w = <<>>

\* The query part of a request URI: what follows the first "?".
RECURSIVE QueryOf(_)
QueryOf(uri) ==
  IF uri = <<>> THEN <<>>
  ELSE IF Head(uri) = "?" THEN Tail(uri)
  ELSE QueryOf(Tail(uri))

\* C1: every canonicalFS call on a path with a ".." segment, under a non-empty
\* root, returns the original path with false and lists no directory.
C1_DotDotRejectedBeforeIO ==
  (Served /\ c.Root # <<>> /\ HasDotDot(Split(OrigPath, "/")))
    => \A i \in 1..Len(trace.fs) :
         /\ ~trace.fs[i].ok
         /\ trace.fs[i].path = OrigPath
         /\ trace.fs[i].reads = <<>>

\* C2: under an unknown mode string a non-excluded path whose lower-case form
\* differs from it reaches the next handler as that lower-case form.
C2_UnknownModeActsAsLower ==
  (/\ Served
   /\ NormMode \notin CaserModes \cup {Str("fs")}
   /\ ~ShortCircuit(OrigPath)
   /\ ~Excluded(OrigPath)
   /\ ToLower(OrigPath) # OrigPath)
    => /\ next.calls = 1
       /\ next.r.Path = ToLower(OrigPath)

\* C3: after ServeHTTP the request carries the query it arrived with, in
\* URL.RawQuery and in the query part of RequestURI.
C3_QueryUntouched ==
  Served => /\ r.RawQuery = orig.r.RawQuery
            /\ QueryOf(r.RequestURI) = QueryOf(orig.r.RequestURI)

\* C4: the path is rewritten and X-Original-URI set exactly when the
\* transformed path differs from the original: then both headers hold the
\* original path and the next handler sees the transformed one; otherwise no
\* header is set and the request is passed on unmodified.
C4_RewriteIffDiffers ==
  (Served /\ ret # "panic")
    => /\ next.calls = 1
       /\ next.r = r
       /\ (~ShortCircuit(OrigPath) /\ ~Excluded(OrigPath))
            => r.Path = Transform(c, OrigPath).path
       /\ IF r.Path # OrigPath
            THEN /\ r.Header = <<OrigPath>>
                 /\ w = <<OrigPath>>
          ELSE /\ r = orig.r
               /\ w = <<>>

C4_Witness ==
  /\ Served
  /\ next.calls = 1
  /\ next.r.Path # OrigPath
  /\ w = <<OrigPath>>

\* C5: a path some non-empty exclusion pattern matches is UNCHANGED in every
\* mode: no caser call, no canonicalFS call, the request passed on as it came.
C5_ExcludedUnchanged ==
  (Served /\ Excluded(OrigPath))
    => /\ PassedUnchanged
       /\ trace.caser = <<>>
       /\ trace.fs = <<>>

C5_Witness ==
  /\ Served
  /\ Excluded(OrigPath)
  /\ ~ShortCircuit(OrigPath)
  /\ c.Exclude[1] = <<>>
  /\ CaserString(c.fold, OrigPath) # OrigPath
  /\ next.r.Path = OrigPath

\* The names of the entries of the directory reached from root by names.
NamesUnder(root, names) ==
  {n.at[Len(n.at)] : n \in Children(Locate(root) \o names)}

\* C6: a successful canonicalFS result has one segment per segment of the
\* cleaned request path, each the name of an entry of the directory reached by
\* the matched names before it: the request segment itself when such an entry
\* exists, else an entry equal to it after lower-casing.
C6_CanonicalSegments ==
  Served =>
    \A k \in 1..Len(trace.fs) :
      trace.fs[k].ok =>
        LET q == Split(TrimPrefix(trace.fs[k].path, <<"/">>), "/")
            segs == Split(TrimPrefix(Clean(OrigPath), <<"/">>), "/")
        IN /\ Len(q) = Len(segs)
           /\ \A i \in 1..Len(q) :
                LET names == NamesUnder(c.Root, SubSeq(q, 1, i - 1))
                IN /\ q[i] \in names
                   /\ IF segs[i] \in names THEN q[i] = segs[i]
                      ELSE ToLower(q[i]) = ToLower(segs[i])

C6_Witness ==
  /\ Served
  /\ Len(trace.fs) = 1
  /\ trace.fs[1].ok
  /\ Len(trace.fs[1].built) >= 2
  /\ trace.fs[1].path # OrigPath
  /\ next.r.Path = trace.fs[1].path

\* C7: in fs mode a canonicalization that cannot be completed (no root, a
\* failed listing, a segment without match, a non-directory on the way) returns
\* the original path with false, and the request goes on unchanged.
C7_FailureKeepsOriginal ==
  (Served /\ NormMode = Str("fs"))
    => /\ (c.Root = <<>> /\ ~ShortCircuit(OrigPath) /\ ~Excluded(OrigPath))
            => (Len(trace.fs) = 1 /\ ~trace.fs[1].ok)
       /\ \A k \in 1..Len(trace.fs) :
            (~trace.fs[k].ok \/ trace.fs[k].why # "ok")
              => /\ ~trace.fs[k].ok
                 /\ trace.fs[k].path = OrigPath
                 /\ PassedUnchanged

C7_Witness ==
  /\ Served
  /\ Len(trace.fs) = 1
  /\ trace.fs[1].why \in {"readdir", "notdir"}
  /\ trace.fs[1].built # <<>>
  /\ trace.fs[1].built[1] # Split(TrimPrefix(OrigPath, <<"/">>), "/")[1]
  /\ next.r.Path = OrigPath

\* C8: Lower and Fold are idempotent on every path handed to the caser, and a
\* path a Lower or Fold rewrite produced is UNCHANGED when the same handler
\* serves it again.
C8_CasersIdempotent ==
  Served =>
    /\ \A k \in 1..Len(trace.caser) :
         LET p == trace.caser[k]
         IN /\ ToLower(ToLower(p)) = ToLower(p)
            /\ FoldString(FoldString(p)) = FoldString(p)
            /\ CaserString(c.fold, r.Path) = r.Path
    /\ (orig.resent /\ NormMode \in CaserModes) => PassedUnchanged

C8_Witness ==
  /\ Served
  /\ orig.resent
  /\ c.fold = "cases.Fold"
  /\ trace.caser = <<OrigPath>>
  /\ \E i \in 1..Len(OrigPath) - 1 : OrigPath[i] = "s" /\ OrigPath[i + 1] = "s"
  /\ next.r.Path = OrigPath

\* C9: the empty path and "/" are UNCHANGED under every configuration, with
\* no exclusion matching, no caser or canonicalFS call and no header.
C9_EmptyAndRootUnchanged ==
  (Served /\ OrigPath \in {<<>>, <<"/">>})
    => /\ PassedUnchanged
       /\ trace = NoTrace

C9_Witness ==
  /\ Served
  /\ OrigPath = <<"/">>
  /\ NormMode = Str("fs")
  /\ c.Root # <<>>
  /\ c.Exclude # <<>>
  /\ next.calls = 1

\* C10: ServeHTTP runs the next handler exactly once and returns that
\* handler's result; it never dereferences a nil caser.
C10_NextExactlyOnce ==
  /\ phase = "request" => (next.calls = 0 /\ ret = "none")
  /\ Served => /\ next.calls = 1
               /\ ret = next.res
               /\ ret \in NextResults

C10_Witness ==
  /\ Served
  /\ c.fold = "nil"
  /\ NormMode = Str("fs")
  /\ ~ShortCircuit(OrigPath)
  /\ ~Excluded(OrigPath)
  /\ next.calls = 1
  /\ ret = "err"

====
